---- MODULE Spec2Model ----
(***************************************************************************)
(* A model of MyTableJs (src/MyTableJs.js): the row store (rowMap, order,  *)
(* filteredOrder, rowIdCounter), the filter pass, the paginator, the body, *)
(* footer and header renderers and their listeners, as one state machine   *)
(* whose actions are the public methods of the class and the 'input'       *)
(* events of the header and the body.                                      *)
(*                                                                         *)
(* Strings are sequences of one-character strings; a row (a JS object) is  *)
(* a function from the field names it has to their values; a JS number     *)
(* that may be undefined or NaN is a record [k, v].                        *)
(***************************************************************************)
EXTENDS Integers, Sequences, FiniteSets, TLC

VARIABLES
  rowMap,               \* this.rowMap: id -> row
  order,                \* this.order
  filteredOrder,        \* this.filteredOrder
  rowIdCounter,         \* this.rowIdCounter
  pagination,           \* this.pagination: [on, page, perPage]
  thead,                \* TRUE iff this.thead is set (renderHeader bound a header)
  tbody,                \* the row elements of this.tbody, in order
  tableHasThead,        \* TRUE iff this.table.querySelector('thead') finds an element
  eventListenersAdded,  \* this.eventListenersAdded
  bodyListeners,        \* how many times #addEventListeners attached the body
                        \* listeners and called options.addEventListeners
  tfoot,                \* the controls of the footer's ul.tablePagination, in order
  headerListeners,      \* how many 'input' listeners renderHeader has added
  headerInputs,         \* the value of the search input of this.thead
  last                  \* the last call: its name, what it returned or threw,
                        \* its side effects in order, and what its callback got

vars == <<rowMap, order, filteredOrder, rowIdCounter, pagination, thead, tbody,
          tableHasThead, eventListenersAdded, bodyListeners, tfoot, headerListeners,
          headerInputs, last>>

----------------------------------------------------------------------------
(* Bounds of the model *)

MaxId == 2            \* ids (given or auto-assigned) range over 1..MaxId
MaxPerPage == 2       \* perPage ranges over 1..MaxPerPage

Ids == 1..MaxId

----------------------------------------------------------------------------
(* JS values *)

Num(n) == [k |-> "num", v |-> n]
NaN == [k |-> "NaN", v |-> 0]
Undefined == [k |-> "undefined", v |-> 0]

Max(a, b) == IF a >= b THEN a ELSE b
Min(a, b) == IF a <= b THEN a ELSE b

\* Math.max(a, Math.min(n, b)) on JS numbers: NaN (and undefined, which
\* Math.min converts to NaN) propagates
ClampJS(lo, n, hi) ==
  IF n.k = "num" THEN Num(Max(lo, Min(n.v, hi))) ELSE NaN

\* n + d on JS numbers: undefined + 1 and NaN + 1 are NaN
AddJS(n, d) == IF n.k = "num" THEN Num(n.v + d) ELSE NaN

\* Math.ceil(a / b) for a >= 0, b > 0
CeilDiv(a, b) == (a + b - 1) \div b

\* Array.prototype.slice(start, end) on integer arguments
SliceIdx(i, len) == IF i < 0 THEN Max(len + i, 0) ELSE Min(i, len)
Slice(s, start, end) ==
  LET a == SliceIdx(start, Len(s))
      b == SliceIdx(end, Len(s))
  IN  IF a >= b THEN <<>> ELSE SubSeq(s, a + 1, b)

Range(s) == {s[i] : i \in DOMAIN s}
Includes(s, x) == \E i \in DOMAIN s : s[i] = x

\* a merge that replaces a by b wholesale
Spread_Replace(a, b) == b

\* { ...a, ...b }
Spread(a, b) ==
  [f \in DOMAIN a \cup DOMAIN b |-> IF f \in DOMAIN b THEN b[f] ELSE a[f]]

\* { ...r, id } / r.id = id
SetId(r, id) == [f \in DOMAIN r \cup {"id"} |-> IF f = "id" THEN id ELSE r[f]]

\* map.delete(id)
MapDelete(m, id) == [k \in DOMAIN m \ {id} |-> m[k]]

\* map.set(id, row)
MapSet(m, id, row) == [k \in DOMAIN m \cup {id} |-> IF k = id THEN row ELSE m[k]]

SetMax(S) == CHOOSE x \in S : \A y \in S : y <= x

----------------------------------------------------------------------------
(* Configuration *)

idField == "keyword_id"     \* options.idField, as in the README's example

NumFields == {"id", idField}     \* the fields that hold numbers; row_text holds text

----------------------------------------------------------------------------
(* Row store: setData's loop (src/MyTableJs.js 338-362) *)

\* row.id || row[this.options.idField], then Number(...): 0 stands for every
\* falsy result (0, NaN of a missing field)
GivenId(row) ==
  IF "id" \in DOMAIN row /\ row["id"] # 0 THEN row["id"]
  ELSE IF idField \in DOMAIN row THEN row[idField]
  ELSE 0

\* an iteration that pushes the id onto both orders whether or not the row exists
IngestOne_PushAlways(st, rec) ==
  LET given == GivenId(rec)
      counter == IF given = 0 THEN st.rowIdCounter + 1 ELSE st.rowIdCounter
      id == IF given = 0 THEN counter ELSE given
      row == SetId(rec, id)
  IN  [rowMap |-> MapSet(st.rowMap, id,
                         IF id \in DOMAIN st.rowMap THEN Spread(st.rowMap[id], row)
                         ELSE row),
       order |-> Append(st.order, id),
       filteredOrder |-> Append(st.filteredOrder, id),
       rowIdCounter |-> counter]

\* one iteration of the loop on the store st = [rowMap, order, filteredOrder, rowIdCounter]
IngestOne(st, rec) ==
  LET given == GivenId(rec)
      counter == IF given = 0 THEN st.rowIdCounter + 1 ELSE st.rowIdCounter
      id == IF given = 0 THEN counter ELSE given
      row == SetId(rec, id)
  IN  IF id \in DOMAIN st.rowMap
      THEN [rowMap |-> MapSet(st.rowMap, id, Spread(st.rowMap[id], row)),
            order |-> st.order,
            filteredOrder |-> st.filteredOrder,
            rowIdCounter |-> counter]
      ELSE [rowMap |-> MapSet(st.rowMap, id, row),
            order |-> IF Includes(st.order, id) THEN st.order
                      ELSE Append(st.order, id),
            filteredOrder |-> IF Includes(st.filteredOrder, id) THEN st.filteredOrder
                              ELSE Append(st.filteredOrder, id),
            rowIdCounter |-> counter]

\* the stores after 0, 1, ..., Len(rows) iterations of the loop
RECURSIVE IngestTrace(_, _)
IngestTrace(st, rows) ==
  IF rows = <<>> THEN <<st>>
  ELSE <<st>> \o IngestTrace(IngestOne(st, Head(rows)), Tail(rows))

\* a counter that starts over after every call
CounterAfter_Reset(m) == 0

\* this.rowIdCounter after setData (369-373)
CounterAfter(m) == IF DOMAIN m # {} THEN SetMax(DOMAIN m) ELSE 0

\* a setData that never resets the filtered order
SetDataStore_KeepAlways(st, rows, keepFilters) ==
  LET trace == IngestTrace(st, rows)
      end == trace[Len(trace)]
  IN  [rowMap |-> end.rowMap,
       order |-> end.order,
       filteredOrder |-> end.filteredOrder,
       rowIdCounter |-> CounterAfter(end.rowMap)]

\* the store setData(rows, keepFilters) leaves (338-373)
SetDataStore(st, rows, keepFilters) ==
  LET trace == IngestTrace(st, rows)
      end == trace[Len(trace)]
  IN  [rowMap |-> end.rowMap,
       order |-> end.order,
       filteredOrder |-> IF keepFilters THEN end.filteredOrder ELSE end.order,
       rowIdCounter |-> CounterAfter(end.rowMap)]

----------------------------------------------------------------------------
(* Filter pass: the predicate of filterTable (262-298) *)

ToLowerChar(c) ==
  CASE c = "A" -> "a" [] c = "B" -> "b" [] c = "R" -> "r" [] OTHER -> c
ToLowerCase(s) == [i \in DOMAIN s |-> ToLowerChar(s[i])]

\* s.split(',')
RECURSIVE Split(_)
Split(s) ==
  IF ~Includes(s, ",") THEN <<s>>
  ELSE LET i == CHOOSE j \in DOMAIN s : s[j] = "," /\ \A k \in 1..(j - 1) : s[k] # ","
       IN  <<SubSeq(s, 1, i - 1)>> \o Split(SubSeq(s, i + 1, Len(s)))

\* w.trim()
RECURSIVE Trim(_)
Trim(s) ==
  IF s = <<>> THEN s
  ELSE IF Head(s) = " " THEN Trim(Tail(s))
  ELSE IF s[Len(s)] = " " THEN Trim(SubSeq(s, 1, Len(s) - 1))
  ELSE s

NonEmpty(w) == w # <<>>

\* words that keep the blanks around them
Words_NoTrim(value) == SelectSeq(Split(ToLowerCase(value)), NonEmpty)

\* String(value).toLowerCase().split(',').map(trim).filter(Boolean)
Words(value) ==
  LET parts == Split(ToLowerCase(value))
  IN  SelectSeq([i \in DOMAIN parts |-> Trim(parts[i])], NonEmpty)

\* haystack.includes(word)
StrIncludes(h, w) ==
  \E i \in 0..(Len(h) - Len(w)) : SubSeq(h, i + 1, i + Len(w)) = w

Digits == <<"0", "1", "2", "3", "4", "5", "6", "7", "8", "9">>

\* String(n) for an integer n >= 0
RECURSIVE NumToString(_)
NumToString(n) ==
  IF n < 10 THEN <<Digits[n + 1]>>
  ELSE NumToString(n \div 10) \o <<Digits[(n % 10) + 1]>>

\* String(row[column] ?? '')
ColumnString(row, column) ==
  IF column \notin DOMAIN row THEN <<>>
  ELSE IF column \in NumFields THEN NumToString(row[column])
  ELSE row[column]

\* words.some(word => String(row[column] ?? '').toLowerCase().includes(word))
EntryMatch(row, f) ==
  LET words == Words(f.value)
      cell == ToLowerCase(ColumnString(row, f.column))
  IN  \E i \in DOMAIN words : StrIncludes(cell, words[i])

\* the accumulators after the loop over the filters (271-291)
RECURSIVE Conditions(_, _, _)
Conditions(row, filters, acc) ==
  IF filters = <<>> THEN acc
  ELSE LET f == Head(filters)
           match == EntryMatch(row, f)
           next ==
             IF f.value = <<>> THEN acc
             ELSE IF f.mode = "AND" THEN [acc EXCEPT !.and = Append(@, match)]
             ELSE IF f.mode = "OR" THEN [acc EXCEPT !.or = Append(@, match)]
             ELSE IF f.mode = "NOT" THEN [acc EXCEPT !.not = Append(@, ~match)]
             ELSE acc
       IN  Conditions(row, Tail(filters), next)

\* andOk && orOk && notOk (293-297)
RowPasses(row, filters) ==
  LET c == Conditions(row, filters, [and |-> <<>>, or |-> <<>>, not |-> <<>>])
      andOk == IF Len(c.and) > 0 THEN \A i \in DOMAIN c.and : c.and[i] ELSE TRUE
      orOk == IF Len(c.or) > 0 THEN \E i \in DOMAIN c.or : c.or[i] ELSE TRUE
      notOk == IF Len(c.not) > 0 THEN \A i \in DOMAIN c.not : c.not[i] ELSE TRUE
  IN  andOk /\ orOk /\ notOk

\* a pass that narrows the previous filteredOrder instead of starting from order
FilterOrder_Narrow(st, filters) ==
  SelectSeq(st.filteredOrder,
            LAMBDA id : id \in DOMAIN st.rowMap /\ RowPasses(st.rowMap[id], filters))

\* this.order.filter(id => ...) on the store st (262-298)
FilterOrder(st, filters) ==
  SelectSeq(st.order,
            LAMBDA id : id \in DOMAIN st.rowMap /\ RowPasses(st.rowMap[id], filters))

----------------------------------------------------------------------------
(* Paginator (443-465) *)

\* Math.ceil(this.filteredOrder.length / this.pagination.perPage) || 1
TotalPages(filt, perPage) ==
  LET c == CeilDiv(Len(filt), perPage) IN IF c = 0 THEN 1 ELSE c

\* a slice that starts one page too far
PaginatedOrder_OffByOne(filt, pag) ==
  IF pag.page.k = "NaN" THEN Slice(filt, 0, 0)
  ELSE LET page == IF pag.page.k = "undefined" THEN 1 ELSE pag.page.v
           start == page * pag.perPage
       IN  Slice(filt, start, start + pag.perPage)

\* getPaginatedOrder: page defaults to 1 when undefined; a NaN page gives
\* slice(NaN, NaN), which is slice(0, 0)
PaginatedOrder(filt, pag) ==
  IF pag.page.k = "NaN" THEN Slice(filt, 0, 0)
  ELSE LET page == IF pag.page.k = "undefined" THEN 1 ELSE pag.page.v
           start == (page - 1) * pag.perPage
       IN  Slice(filt, start, start + pag.perPage)

\* Math.max(1, Math.min(page, total))
ClampPage(n, total) == ClampJS(1, n, total)

----------------------------------------------------------------------------
(* Body renderer: #renderTable (63-86) *)

\* the order #renderTable walks (67)
DisplayOrder(filt, pag) == IF pag.on THEN PaginatedOrder(filt, pag) ELSE filt

\* #renderRow (51-57): the element the template makes of the row, stamped with
\* the row's id
RenderRow(row) == [id |-> row["id"], row |-> row]

\* the elements appended to tbody (71-77): ids without a row are skipped
RenderedBody(m, filt, pag) ==
  LET ids == SelectSeq(DisplayOrder(filt, pag), LAMBDA id : id \in DOMAIN m)
  IN  [i \in DOMAIN ids |-> RenderRow(m[ids[i]])]

\* this.tbody.querySelector(`[data-id="${id}"]`): the first element with that id
HasElement(body, id) == \E i \in DOMAIN body : body[i].id = id
QuerySelector(body, id) ==
  CHOOSE j \in DOMAIN body : body[j].id = id /\ \A k \in 1..(j - 1) : body[k].id # id

\* the data-id of the elements of a body
BodyIds(body) == [i \in DOMAIN body |-> body[i].id]

----------------------------------------------------------------------------
(* Footer renderer: #renderFooter (88-107), #renderPagination (113-184) *)

\* this.pagination.page || 1
CurrentPage(pag) == IF pag.page.k = "num" /\ pag.page.v # 0 THEN pag.page.v ELSE 1

\* the previous-page and next-page buttons (121-129, 172-181)
PrevButton(currentPage) ==
  [kind |-> "prev", page |-> 0, disabled |-> currentPage = 1]
NextButton(totalPages, currentPage) ==
  [kind |-> "next", page |-> 0, disabled |-> currentPage = totalPages]

\* addPageButton(page) (131-143)
PageButton(page, currentPage) ==
  [kind |-> "page", page |-> page, disabled |-> page = currentPage]

\* addEllipsis() (145-150)
Ellipsis == [kind |-> "ellipsis", page |-> 0, disabled |-> FALSE]

\* Math.max(2, currentPage - 2) (152)
WindowStart(currentPage) == Max(2, currentPage - 2)

\* a window that runs up to the last page
WindowEnd_ToLast(totalPages, currentPage) == Min(totalPages, currentPage + 2)

\* Math.min(totalPages - 1, currentPage + 2) (153)
WindowEnd(totalPages, currentPage) == Min(totalPages - 1, currentPage + 2)

\* the children of ul.tablePagination, in the order they are appended (121-181)
RenderPagination(totalPages, currentPage) ==
  LET start == WindowStart(currentPage)
      end == WindowEnd(totalPages, currentPage)
  IN  <<PrevButton(currentPage), PageButton(1, currentPage)>>
        \o (IF start > 2 THEN <<Ellipsis>> ELSE <<>>)
        \o [i \in 1..(end - start + 1) |-> PageButton(start + i - 1, currentPage)]
        \o (IF end < totalPages - 1 THEN <<Ellipsis>> ELSE <<>>)
        \o (IF totalPages > 1 THEN <<PageButton(totalPages, currentPage)>> ELSE <<>>)
        \o <<NextButton(totalPages, currentPage)>>

\* #renderFooter (88-107) on the filtered order and pagination it is given
RenderFooter(filt, pag) ==
  RenderPagination(TotalPages(filt, pag.perPage), CurrentPage(pag))

----------------------------------------------------------------------------
(* Inputs *)

\* cell texts "Ab" and "b"
Texts == {<<"A", "b">>, <<"b">>}

\* records handed to setData: any of the fields may be missing
FullRecords == [id : Ids, keyword_id : Ids, row_text : Texts]
RecordsOver(fields) ==
  {[f \in S |-> r[f]] : r \in FullRecords, S \in SUBSET fields}

Records == RecordsOver({"id", "row_text"})
RichRecords == RecordsOver({"id", idField, "row_text"})

\* batches handed to setData
Singles(recs) == {<<>>} \cup {<<r>> : r \in recs}
Pairs(recs) == {<<r, q>> : r \in recs, q \in recs}
Triples(recs) == {<<r, q, p>> : r \in recs, q \in recs, p \in recs}

\* partialData handed to updateRow: a new text, or an id
Partials == {[row_text |-> t] : t \in Texts} \cup {[id |-> i] : i \in Ids}

\* filter values "", "a" and "B"
EmptyValue == <<>>
FilterValues == {EmptyValue, <<"a">>, <<"B">>}
Modes == {"AND", "OR", "NOT"}
FilterEntries(columns, values) == [column : columns, value : values, mode : Modes]
Filters == {<<e>> : e \in FilterEntries({"row_text"}, FilterValues)}

\* arguments of setPage
PageArgs == 0..(MaxId + 1)

\* arguments of removeRow and updateRow: the ids and one id that is never stored
IdArgs == 1..(MaxId + 1)

----------------------------------------------------------------------------
(* State machine *)

\* options.onFilterEnd is configured (README, constructor options)
onFilterEnd == TRUE

\* a call: its name, what it returned or threw, its side effects in the order
\* they happened, and the argument its callback received
CallWith(op, ret, effects, arg) ==
  [op |-> op, ret |-> ret, effects |-> effects, arg |-> arg]
Call(op, ret) == CallWith(op, ret, <<>>, <<>>)

\* pagination as given to the constructor: absent, {perPage} or {page: 1, perPage}
Paginations ==
  {[on |-> FALSE, page |-> Undefined, perPage |-> 0]}
    \cup {[on |-> TRUE, page |-> p, perPage |-> n] :
            p \in {Undefined, Num(1)}, n \in 1..MaxPerPage}

\* constructor (22-43)
Init ==
  /\ rowMap = <<>>
  /\ order = <<>>
  /\ filteredOrder = <<>>
  /\ rowIdCounter = 0
  /\ pagination \in Paginations
  /\ thead = FALSE
  /\ tableHasThead = FALSE
  /\ tbody = <<>>
  /\ eventListenersAdded = FALSE
  /\ bodyListeners = 0
  /\ tfoot = <<>>
  /\ headerListeners = 0
  /\ headerInputs = EmptyValue
  /\ last = Call("new", "table")

\* listeners attached on every render
AddEventListeners_Always(added, n) == n + 1

\* #addEventListeners (221-253): the number of attachments after a call made
\* when this.eventListenersAdded is added and n attachments were made before
AddEventListeners(added, n) == IF added THEN n ELSE n + 1

\* #renderTable (63-86) on the store it is given, called when
\* this.eventListenersAdded is added and n attachments were made before
RenderTableFrom(m, filt, pag, added, n) ==
  /\ tbody' = RenderedBody(m, filt, pag)
  /\ bodyListeners' = AddEventListeners(added, n)
  /\ eventListenersAdded' = TRUE
  /\ tfoot' = IF pag.on THEN RenderFooter(filt, pag) ELSE tfoot

RenderTable(m, filt, pag) ==
  RenderTableFrom(m, filt, pag, eventListenersAdded, bodyListeners)

\* the store as one record
Store == [rowMap |-> rowMap, order |-> order, filteredOrder |-> filteredOrder,
          rowIdCounter |-> rowIdCounter]

\* setData(rows, keepFilters) (337-376), as long as the ids stay within ids
SetDataWithin(rows, keepFilters, ids) ==
  LET st == SetDataStore(Store, rows, keepFilters)
  IN  /\ DOMAIN st.rowMap \subseteq ids
      /\ rowMap' = st.rowMap
      /\ order' = st.order
      /\ filteredOrder' = st.filteredOrder
      /\ RenderTable(st.rowMap, st.filteredOrder, pagination)
      /\ rowIdCounter' = st.rowIdCounter
      /\ last' = CallWith("setData", "tbody", <<"render">>, <<>>)
      /\ UNCHANGED <<pagination, thead, headerListeners, headerInputs,
                     tableHasThead>>

SetData(rows, keepFilters) == SetDataWithin(rows, keepFilters, Ids)

\* a removal that leaves the id where it is
FilterOut_Keep(s, id) == s

\* s.filter(x => x !== id) (388-389)
FilterOut(s, id) == SelectSeq(s, LAMBDA x : x # id)

\* removeRow(id) (383-396)
RemoveRow(id) ==
  IF id \notin DOMAIN rowMap
  THEN /\ last' = Call("removeRow", "false")
       /\ UNCHANGED <<rowMap, order, filteredOrder, rowIdCounter, pagination, thead,
                      headerListeners, headerInputs, tbody, tableHasThead,
                      eventListenersAdded, bodyListeners, tfoot>>
  ELSE /\ rowMap' = MapDelete(rowMap, id)
       /\ order' = FilterOut(order, id)
       /\ filteredOrder' = FilterOut(filteredOrder, id)
       /\ tbody' = IF HasElement(tbody, id)
                   THEN LET i == QuerySelector(tbody, id)
                        IN  SubSeq(tbody, 1, i - 1) \o SubSeq(tbody, i + 1, Len(tbody))
                   ELSE tbody
       /\ last' = Call("removeRow", "true")
       /\ UNCHANGED <<rowIdCounter, pagination, thead, headerListeners, headerInputs,
                      tableHasThead, eventListenersAdded, bodyListeners, tfoot>>

\* a merge that lets newData overwrite the id
UpdatedRow_NoId(oldData, newData, id) == Spread(oldData, newData)

\* { ...oldData, ...newData, id } (414)
UpdatedRow(oldData, newData, id) == SetId(Spread(oldData, newData), id)

\* updateRow(id, newData, updateElement) (409-426)
UpdateRow(id, newData, updateElement) ==
  IF id \notin DOMAIN rowMap
  THEN /\ last' = Call("updateRow", "false")
       /\ UNCHANGED <<rowMap, order, filteredOrder, rowIdCounter, pagination, thead,
                      headerListeners, headerInputs, tbody, tableHasThead,
                      eventListenersAdded, bodyListeners, tfoot>>
  ELSE LET updatedRow == UpdatedRow(rowMap[id], newData, id)
       IN  /\ rowMap' = MapSet(rowMap, id, updatedRow)
           /\ tbody' = IF updateElement /\ HasElement(tbody, id)
                       THEN [tbody EXCEPT ![QuerySelector(tbody, id)] =
                                            RenderRow(updatedRow)]
                       ELSE tbody
           /\ last' = Call("updateRow", "true")
           /\ UNCHANGED <<order, filteredOrder, rowIdCounter, pagination, thead,
                          headerListeners, headerInputs, tableHasThead,
                          eventListenersAdded, bodyListeners, tfoot>>

\* the 'input' listener of tbody (239-249): the user typed value into the
\* input[data-column="row_text"] of the row element of id
UpdatedRowType == <<"u", "p", "d", "a", "t", "e", "d", "R", "o", "w">>

BodyInput(id, value) ==
  /\ eventListenersAdded
  /\ HasElement(tbody, id)
  /\ UpdateRow(id, [row_text |-> value, rowType |-> UpdatedRowType], FALSE)

\* what setPage does, in order (451-452)
SetPageEffects == <<"page", "render">>

\* setPage(page) on a JS number (449-453); without pagination getTotalPages
\* reads this.pagination.perPage of undefined and throws
SetPageJS(op, n) ==
  IF ~pagination.on
  THEN /\ last' = Call(op, "TypeError")
       /\ UNCHANGED <<rowMap, order, filteredOrder, rowIdCounter, pagination, thead,
                      headerListeners, headerInputs, tbody, tableHasThead,
                      eventListenersAdded, bodyListeners, tfoot>>
  ELSE LET total == TotalPages(filteredOrder, pagination.perPage)
           pag == [pagination EXCEPT !.page = ClampPage(n, total)]
       IN  /\ pagination' = pag
           /\ RenderTable(rowMap, filteredOrder, pag)
           /\ last' = CallWith(op, "undefined", SetPageEffects, <<>>)
           /\ UNCHANGED <<rowMap, order, filteredOrder, rowIdCounter, thead,
                          headerListeners, headerInputs, tableHasThead>>

SetPage(n) == SetPageJS("setPage", Num(n))

\* nextPage() (455-457)
NextPage == SetPageJS("nextPage", AddJS(pagination.page, 1))

\* prevPage() (459-461)
PrevPage == SetPageJS("prevPage", AddJS(pagination.page, -1))

\* what filterTable does after the filter loop, in order (298-316):
\* this.filteredOrder is assigned, setPage(1) when pagination is configured,
\* #renderTable, options.onFilterEnd when configured
FilterTableEffects(pag) ==
  <<"filteredOrder">> \o (IF pag.on THEN SetPageEffects ELSE <<>>) \o <<"render">>
    \o (IF onFilterEnd THEN <<"onFilterEnd">> ELSE <<>>)

\* the Map handed to onFilterEnd (306-314), as its entries in insertion order
FilteredMap(m, filt) ==
  LET ids == SelectSeq(filt, LAMBDA id : id \in DOMAIN m)
  IN  [i \in DOMAIN ids |-> <<ids[i], m[ids[i]]>>]

\* filterTable(filters) (260-317) but for the header it may have been called from
FilterPass(filters) ==
  LET filt == FilterOrder(Store, filters)
      pag == IF pagination.on
             THEN [pagination EXCEPT
                     !.page = ClampPage(Num(1), TotalPages(filt, pagination.perPage))]
             ELSE pagination
  IN  /\ filteredOrder' = filt
      /\ pagination' = pag
      /\ IF pagination.on
         THEN RenderTableFrom(rowMap, filt, pag, TRUE,
                              AddEventListeners(eventListenersAdded, bodyListeners))
         ELSE RenderTable(rowMap, filt, pag)
      /\ last' = CallWith("filterTable", "filteredOrder", FilterTableEffects(pagination),
                          IF onFilterEnd THEN FilteredMap(rowMap, filt) ELSE <<>>)
      /\ UNCHANGED <<rowMap, order, rowIdCounter, thead, headerListeners,
                     tableHasThead>>

\* filterTable(filters) called by the program that uses the table
FilterTable(filters) == FilterPass(filters) /\ UNCHANGED headerInputs

\* the filter array the header's 'input' listener builds (202-212) from a
\* header with one input[data-search-column="row_text"] and no mode switch
FilterArray(value) == <<[column |-> "row_text", value |-> value, mode |-> "AND"]>>

\* the 'input' listener of the header (202-212): the user typed value into the
\* search input of this.thead
HeaderInput(value) ==
  /\ thead
  /\ headerInputs' = value
  /\ FilterPass(FilterArray(value))

\* resetFilter() (323-329): without a bound header this.thead is undefined and
\* this.thead.querySelectorAll throws after filteredOrder was assigned
ResetFilter ==
  /\ filteredOrder' = order
  /\ IF thead
     THEN /\ headerInputs' = EmptyValue
          /\ RenderTable(rowMap, order, pagination)
          /\ last' = CallWith("resetFilter", "undefined", <<"render">>, <<>>)
     ELSE /\ last' = Call("resetFilter", "TypeError")
          /\ UNCHANGED <<headerInputs, tbody, eventListenersAdded, bodyListeners,
                         tfoot>>
  /\ UNCHANGED <<rowMap, order, rowIdCounter, pagination, thead, headerListeners,
                 tableHasThead>>

\* the elements handed to renderHeader: no element, or a thead element that is
\* in no document yet
HeaderElements == {"none", "detached"}

\* and a thead element that has a parent outside this table
AnyHeaderElements == HeaderElements \cup {"attached"}

\* renderHeader(headerElement) (193-216)
RenderHeader(headerElement) ==
  IF headerElement = "none" \/ tableHasThead
  THEN /\ last' = Call("renderHeader", "null")
       /\ UNCHANGED <<rowMap, order, filteredOrder, rowIdCounter, pagination, thead,
                      headerListeners, headerInputs, tbody, tableHasThead,
                      eventListenersAdded, bodyListeners, tfoot>>
  ELSE /\ tableHasThead' = IF headerElement = "detached" THEN TRUE ELSE tableHasThead
       /\ headerListeners' = headerListeners + 1
       /\ thead' = TRUE
       /\ headerInputs' = EmptyValue
       /\ last' = Call("renderHeader", "element")
       /\ UNCHANGED <<rowMap, order, filteredOrder, rowIdCounter, pagination, tbody,
                      eventListenersAdded, bodyListeners, tfoot>>

Next ==
  \/ \E rows \in Singles(Records), keepFilters \in BOOLEAN : SetData(rows, keepFilters)
  \/ \E id \in IdArgs : RemoveRow(id)
  \/ \E id \in IdArgs, newData \in Partials, updateElement \in BOOLEAN :
       UpdateRow(id, newData, updateElement)
  \/ \E filters \in Filters : FilterTable(filters)
  \/ ResetFilter
  \/ \E n \in PageArgs : SetPage(n)
  \/ NextPage
  \/ PrevPage
  \/ \E headerElement \in HeaderElements : RenderHeader(headerElement)

Spec == Init /\ [][Next]_vars

\* a table constructed with pagination: {page: 1, perPage}
InitPageGiven == Init /\ pagination.on /\ pagination.page = Num(1)

SpecPageGiven == InitPageGiven /\ [][Next]_vars

\* ingestion on a table without pagination: single records with any of id,
\* keyword_id and row_text, and batches of two records
IngestBatches == Singles(RichRecords) \cup Pairs(Records)

InitIngest == Init /\ ~pagination.on

NextIngest ==
  \/ \E rows \in IngestBatches, keepFilters \in BOOLEAN : SetData(rows, keepFilters)
  \/ \E id \in IdArgs : RemoveRow(id)
  \/ \E filters \in Filters : FilterTable(filters)

SpecIngest == InitIngest /\ [][NextIngest]_vars

\* filter passes of up to two entries on the text and the id column, on a
\* table without pagination
PassEntries ==
  FilterEntries({"row_text"}, {EmptyValue, <<"a">>, <<"b">>})
    \cup FilterEntries({"id"}, {<<"1">>})
Passes == {<<>>} \cup {<<e>> : e \in PassEntries}
            \cup {<<e, f>> : e \in PassEntries, f \in PassEntries}

NextFilter ==
  \/ \E rows \in Singles(Records), keepFilters \in BOOLEAN : SetData(rows, keepFilters)
  \/ \E filters \in Passes : FilterTable(filters)

SpecFilter == InitIngest /\ [][NextFilter]_vars

\* a paginated table after its first setData, of n records without ids
MaxRows == 9

InitPages ==
  \E n \in 0..MaxRows :
    /\ rowMap = [i \in 1..n |-> [id |-> i]]
    /\ order = [i \in 1..n |-> i]
    /\ filteredOrder = order
    /\ rowIdCounter = n
    /\ pagination \in {pag \in Paginations : pag.on}
    /\ thead = FALSE
    /\ tableHasThead = FALSE
    /\ tbody = RenderedBody(rowMap, filteredOrder, pagination)
    /\ eventListenersAdded = TRUE
    /\ bodyListeners = 1
    /\ tfoot = RenderFooter(filteredOrder, pagination)
    /\ headerListeners = 0
    /\ headerInputs = EmptyValue
    /\ last = CallWith("setData", "tbody", <<"render">>, <<>>)

NextPages ==
  \/ \E n \in 0..(MaxRows + 1) : SetPage(n)
  \/ NextPage
  \/ PrevPage
  \/ \E id \in 1..MaxRows : RemoveRow(id)

SpecPages == InitPages /\ [][NextPages]_vars

\* a table that is only ever given records without an id and without the
\* configured id field, in batches of up to three, until it holds MaxAuto rows
MaxAuto == 4

AutoRecords == RecordsOver({"row_text"})
AutoBatches == Singles(AutoRecords) \cup Pairs(AutoRecords) \cup Triples(AutoRecords)

NextAuto ==
  \E rows \in AutoBatches, keepFilters \in BOOLEAN :
    SetDataWithin(rows, keepFilters, 1..MaxAuto)

SpecAuto == Init /\ [][NextAuto]_vars

\* a table without pagination that is filtered through its header: the values
\* typed into the search input are "", "a", "x, B" and ", "
MaxHeaders == 2

HeaderValues ==
  {EmptyValue, <<"a">>, <<"x", ",", " ", "B">>, <<",", " ">>}

NextHeader ==
  \/ \E headerElement \in AnyHeaderElements :
       headerListeners < MaxHeaders /\ RenderHeader(headerElement)
  \/ \E value \in HeaderValues : HeaderInput(value)
  \/ \E rows \in Singles(Records) : SetData(rows, TRUE)
  \/ \E id \in Ids, newData \in Partials : UpdateRow(id, newData, TRUE)
  \/ \E id \in Ids, value \in Texts : BodyInput(id, value)
  \/ ResetFilter

SpecHeader == InitIngest /\ [][NextHeader]_vars

----------------------------------------------------------------------------
(* Properties *)

NoDuplicates(s) == \A i, j \in DOMAIN s : s[i] = s[j] => i = j

\* a is b with some elements left out
RECURSIVE IsSubsequence(_, _)
IsSubsequence(a, b) ==
  IF a = <<>> THEN TRUE
  ELSE IF b = <<>> THEN FALSE
  ELSE IF Head(a) = Head(b) THEN IsSubsequence(Tail(a), Tail(b))
  ELSE IsSubsequence(a, Tail(b))

\* C1: in every reachable state order and filteredOrder hold no id twice,
\* every id in them is a key of rowMap, and filteredOrder is a subsequence of
\* order.
C1_StoreInvariant ==
  /\ NoDuplicates(order)
  /\ NoDuplicates(filteredOrder)
  /\ Range(order) \subseteq DOMAIN rowMap
  /\ Range(filteredOrder) \subseteq DOMAIN rowMap
  /\ IsSubsequence(filteredOrder, order)

\* a row was added by setData while a filter hid an earlier row
C1_Witness ==
  /\ last.op = "setData"
  /\ Len(order) = MaxId
  /\ filteredOrder # <<>>
  /\ Len(filteredOrder) < Len(order)
  /\ filteredOrder[Len(filteredOrder)] = order[Len(order)]

\* C3: with pagination configured the page is a number within
\* [1, getTotalPages()] in every reachable state.
C3_PageInRange ==
  pagination.on =>
    /\ pagination.page.k = "num"
    /\ pagination.page.v >= 1
    /\ pagination.page.v <= TotalPages(filteredOrder, pagination.perPage)

C7_ResetFilter ==
  last.op = "resetFilter" =>
    /\ last.ret # "TypeError"
    /\ filteredOrder = order
    /\ BodyIds(tbody) = DisplayOrder(order, pagination)

\* C8: with pagination configured setPage, nextPage and prevPage never throw
\* and leave the page a number within [1, getTotalPages()].
C8_PageAfterNavigation ==
  (pagination.on /\ last.op \in {"setPage", "nextPage", "prevPage"}) =>
    /\ last.ret # "TypeError"
    /\ pagination.page.k = "num"
    /\ pagination.page.v >= 1
    /\ pagination.page.v <= TotalPages(filteredOrder, pagination.perPage)

\* C9: updateRow on a known id returns true and stores the old row overlaid
\* with partialData, its id field kept equal to the key; order, filteredOrder,
\* the page and the other rows stay, and with updateElement false so does
\* every row element. On an unknown id it returns false and changes nothing.
C9_UpdateRow ==
  [][\A id \in IdArgs, newData \in Partials, updateElement \in BOOLEAN :
       (last'.op = "updateRow" /\ UpdateRow(id, newData, updateElement)) =>
         IF id \in DOMAIN rowMap
         THEN /\ last'.ret = "true"
              /\ DOMAIN rowMap' = DOMAIN rowMap
              /\ DOMAIN rowMap'[id] = DOMAIN rowMap[id] \cup DOMAIN newData
              /\ rowMap'[id]["id"] = id
              /\ \A f \in DOMAIN newData \ {"id"} : rowMap'[id][f] = newData[f]
              /\ \A f \in DOMAIN rowMap[id] \ DOMAIN newData :
                   rowMap'[id][f] = rowMap[id][f]
              /\ \A k \in DOMAIN rowMap \ {id} : rowMap'[k] = rowMap[k]
              /\ UNCHANGED <<order, filteredOrder, pagination>>
              /\ ~updateElement => UNCHANGED tbody
         ELSE /\ last'.ret = "false"
              /\ UNCHANGED <<rowMap, order, filteredOrder, pagination, tbody>>]_vars

\* updateRow changed a stored row whose element still shows the old data
C9_Witness ==
  /\ last.op = "updateRow"
  /\ last.ret = "true"
  /\ \E i \in DOMAIN tbody :
       /\ tbody[i].id \in DOMAIN rowMap
       /\ "row_text" \in DOMAIN tbody[i].row
       /\ rowMap[tbody[i].id]["id"] = tbody[i].id
       /\ rowMap[tbody[i].id]["row_text"] # tbody[i].row["row_text"]

IsPrefix(a, b) == Len(a) <= Len(b) /\ SubSeq(b, 1, Len(a)) = a

\* C4: a record that carries the configured id field is stored under that
\* field's value, whatever its literal id field holds; the literal id is used
\* when the configured field is missing, the counter when both are.
C4_ConfiguredIdFirst ==
  [][\A rec \in RichRecords, keepFilters \in BOOLEAN :
       (last'.op = "setData" /\ SetData(<<rec>>, keepFilters)) =>
         LET id == IF idField \in DOMAIN rec THEN rec[idField]
                   ELSE IF "id" \in DOMAIN rec THEN rec["id"]
                   ELSE rowIdCounter + 1
         IN  /\ DOMAIN rowMap' = DOMAIN rowMap \cup {id}
             /\ rowMap'[id]["id"] = id
             /\ \A f \in DOMAIN rec \ {"id"} : rowMap'[id][f] = rec[f]]_vars

\* the merge of rec into the row id of store st, giving store st1
MergedInto(st, st1, rec, id) ==
  /\ DOMAIN st1.rowMap = DOMAIN st.rowMap
  /\ DOMAIN st1.rowMap[id] = DOMAIN st.rowMap[id] \cup DOMAIN rec
  /\ st1.rowMap[id]["id"] = id
  /\ \A f \in DOMAIN st.rowMap[id] \ DOMAIN rec : st1.rowMap[id][f] = st.rowMap[id][f]
  /\ \A f \in DOMAIN rec \ {"id"} : st1.rowMap[id][f] = rec[f]
  /\ \A k \in DOMAIN st.rowMap \ {id} : st1.rowMap[k] = st.rowMap[k]
  /\ st1.order = st.order
  /\ st1.filteredOrder = st.filteredOrder

\* C5: from every reachable store and for every batch, a record whose resolved
\* id is already stored when its turn comes is merged into that row: old fields
\* it does not name survive, the fields it names take its values, the id
\* stays; the ids stored before the call keep their places in order (and, with
\* keepFilters, in filteredOrder) and no id appears twice.
C5_Merge ==
  \A rows \in IngestBatches, keepFilters \in BOOLEAN :
    LET trace == IngestTrace(Store, rows)
        end == SetDataStore(Store, rows, keepFilters)
    IN  /\ \A i \in DOMAIN rows :
             LET given == GivenId(rows[i])
                 id == IF given # 0 THEN given ELSE trace[i].rowIdCounter + 1
             IN  id \in DOMAIN trace[i].rowMap =>
                   MergedInto(trace[i], trace[i + 1], rows[i], id)
        /\ IsPrefix(order, end.order)
        /\ NoDuplicates(end.order)
        /\ NoDuplicates(end.filteredOrder)
        /\ keepFilters =>
             /\ IsPrefix(filteredOrder, end.filteredOrder)
             /\ \A id \in DOMAIN rowMap :
                  Includes(end.filteredOrder, id) <=> Includes(filteredOrder, id)

\* setData with keepFilters merged into a row that the filter hides
C5_Witness ==
  /\ last.op = "setData"
  /\ Len(order) = MaxId
  /\ Len(filteredOrder) < Len(order)
  /\ \E id \in DOMAIN rowMap :
       /\ ~Includes(filteredOrder, id)
       /\ DOMAIN rowMap[id] = {"id", idField, "row_text"}

\* the entries of a pass that have a value and the given mode
Live(filters, mode) ==
  {i \in DOMAIN filters : filters[i].value # EmptyValue /\ filters[i].mode = mode}

\* a row is kept iff every AND entry with a value matches, one OR entry with a
\* value matches unless there is none, and no NOT entry with a value matches
Kept(row, filters) ==
  /\ \A i \in Live(filters, "AND") : EntryMatch(row, filters[i])
  /\ Live(filters, "OR") # {} => \E i \in Live(filters, "OR") : EntryMatch(row, filters[i])
  /\ \A i \in Live(filters, "NOT") : ~EntryMatch(row, filters[i])

\* C2: from every reachable store, whatever filteredOrder holds, the order a
\* filter pass computes is the subsequence of order made of the rows that are
\* kept; entries with an empty value count for nothing.
C2_FilterPass ==
  \A filters \in Passes :
    LET filt == FilterOrder(Store, filters)
    IN  /\ IsSubsequence(filt, order)
        /\ \A id \in Range(order) : Includes(filt, id) <=> Kept(rowMap[id], filters)

\* a pass left a store of MaxId rows with one row hidden and one shown
C2_Witness ==
  /\ last.op = "filterTable"
  /\ Len(order) = MaxId
  /\ filteredOrder # <<>>
  /\ Len(filteredOrder) < Len(order)

\* ceil(a / b) for a >= 0, b > 0: the least k with k * b >= a
Ceiling(a, b) == CHOOSE k \in 0..a : k * b >= a /\ \A j \in 0..(k - 1) : j * b < a

\* getPaginatedOrder() when the page is p
PageOf(p) == PaginatedOrder(filteredOrder, [pagination EXCEPT !.page = Num(p)])

RECURSIVE PagesUpTo(_)
PagesUpTo(p) == IF p = 0 THEN <<>> ELSE PagesUpTo(p - 1) \o PageOf(p)

\* C10: getTotalPages() is max(1, ceil(length(filteredOrder) / perPage)); the
\* pages 1 .. getTotalPages() of getPaginatedOrder(), one after the other, are
\* filteredOrder, and every page but the last holds perPage ids.
C10_Pages ==
  pagination.on =>
    LET total == TotalPages(filteredOrder, pagination.perPage)
    IN  /\ total = Max(1, Ceiling(Len(filteredOrder), pagination.perPage))
        /\ PagesUpTo(total) = filteredOrder
        /\ \A p \in 1..(total - 1) : Len(PageOf(p)) = pagination.perPage

\* the last of at least three pages is shown and is not full
C10_Witness ==
  /\ pagination.on
  /\ pagination.perPage > 1
  /\ pagination.page = Num(TotalPages(filteredOrder, pagination.perPage))
  /\ pagination.page.v >= 3
  /\ Len(tbody) < pagination.perPage
  /\ tbody # <<>>

\* the letters the model's strings hold in both cases
SameLetter(c, d) == c = d \/ {c, d} \in {{"a", "A"}, {"b", "B"}, {"r", "R"}}

\* w occurs in h when case is ignored
OccursIn(w, h) ==
  \E o \in 0..(Len(h) - Len(w)) : \A k \in 1..Len(w) : SameLetter(h[o + k], w[k])

\* the stretches of value between two commas (or an end), without the blanks
\* around them, that are not empty
Tokens(value) ==
  {SubSeq(value, ab[1], ab[2]) : ab \in
     {ab \in (DOMAIN value) \X (DOMAIN value) :
        /\ ab[1] <= ab[2]
        /\ \A k \in ab[1]..ab[2] : value[k] # ","
        /\ value[ab[1]] # " " /\ value[ab[2]] # " "
        /\ \E i \in 1..ab[1] :
             /\ i = 1 \/ value[i - 1] = ","
             /\ \A k \in i..(ab[1] - 1) : value[k] = " "
        /\ \E j \in ab[2]..Len(value) :
             /\ j = Len(value) \/ value[j + 1] = ","
             /\ \A k \in (ab[2] + 1)..j : value[k] = " "}}

\* filter values with one token, several tokens and none: "a", "B", "x, B", " b ,x", ", ",
\* ",", " ", "1", "ab,2" and "ROW"
TokenValues ==
  {<<"a">>, <<"B">>, <<"x", ",", " ", "B">>, <<" ", "b", " ", ",", "x">>,
   <<",", " ">>, <<",">>, <<" ">>, <<"1">>, <<"a", "b", ",", "2">>,
   <<"R", "O", "W">>}

TokenColumns == {"row_text", "id", idField, "rowType"}

C12_SetDataResetsFilter ==
  /\ \A rows \in IngestBatches :
       LET st == SetDataStore(Store, rows, FALSE)
       IN  /\ st.filteredOrder = st.order
           /\ \A i \in DOMAIN rows :
                GivenId(rows[i]) # 0 => Includes(st.filteredOrder, GivenId(rows[i]))
  /\ last.op = "setData" =>
       /\ last.effects = <<"render">>
       /\ tbody = RenderedBody(rowMap, filteredOrder, pagination)

\* a filter left fewer rows than the store has, and setData(rows, false) on
\* that store shows all of them again
C12_Witness ==
  /\ last.op = "filterTable"
  /\ Len(filteredOrder) < Len(order)
  /\ SetDataStore(Store, <<>>, FALSE).filteredOrder = order

\* C13: a store that started empty and was only given records without an id
\* holds the ids 1, 2, 3, ... in ingestion order with the counter at the
\* largest id (0 when empty), and any further batch of such records gets the
\* next ids in the order of the batch.
C13_AutoIds ==
  LET n == Len(order)
  IN  /\ order = [i \in 1..n |-> i]
      /\ DOMAIN rowMap = 1..n
      /\ \A id \in DOMAIN rowMap : id <= rowIdCounter
      /\ IF n = 0 THEN rowIdCounter = 0 ELSE rowIdCounter \in DOMAIN rowMap
      /\ \A rows \in AutoBatches, keepFilters \in BOOLEAN :
           LET st == SetDataStore(Store, rows, keepFilters)
           IN  /\ st.order = order \o [i \in DOMAIN rows |-> n + i]
               /\ \A i \in DOMAIN rows : st.rowMap[n + i] = SetId(rows[i], n + i)
               /\ \A id \in 1..n : st.rowMap[id] = rowMap[id]
               /\ st.rowIdCounter = n + Len(rows)

\* MaxAuto records were ingested, the last of them in a batch after others
C13_Witness ==
  /\ last.op = "setData"
  /\ order = [i \in 1..MaxAuto |-> i]
  /\ rowIdCounter = MaxAuto
  /\ "row_text" \in DOMAIN rowMap[1] /\ "row_text" \notin DOMAIN rowMap[MaxAuto]

\* C14: a filterTable call does, in this order and once each: assign
\* filteredOrder, set the page to 1 when pagination is configured, redraw the
\* body from the new filteredOrder, call onFilterEnd with a Map whose keys are
\* the ids of filteredOrder in order, each with its stored row.
C14_FilterTableEffects ==
  last.op = "filterTable" =>
    /\ last.effects =
         <<"filteredOrder">> \o (IF pagination.on THEN <<"page">> ELSE <<>>)
           \o <<"render", "onFilterEnd">>
    /\ pagination.on => pagination.page = Num(1)
    /\ BodyIds(tbody) = DisplayOrder(filteredOrder, pagination)
    /\ last.arg = [i \in DOMAIN filteredOrder |->
                     <<filteredOrder[i], rowMap[filteredOrder[i]]>>]

\* C15: whatever renderHeader calls were made, at most one header element is
\* bound: one 'input' listener was added if a header is bound, none if not.
C15_OneHeader ==
  /\ headerListeners <= 1
  /\ thead <=> headerListeners = 1

\* C16: in every setData call, a record without a resolvable id is stored
\* under a counter value that was not a key of rowMap when the record was
\* processed, so it is inserted as a new row and never merged.
C16_AutoIdIsNew ==
  [][last'.op = "setData" =>
       \A rows \in IngestBatches, keepFilters \in BOOLEAN :
         SetData(rows, keepFilters) =>
           LET trace == IngestTrace(Store, rows)
           IN  \A i \in DOMAIN rows :
                 GivenId(rows[i]) = 0 =>
                   /\ trace[i].rowIdCounter + 1 \notin DOMAIN trace[i].rowMap
                   /\ Len(trace[i + 1].order) = Len(trace[i].order) + 1]_vars

\* the calls that return normally
Completed == last.ret # "TypeError"

\* C17: after every public operation that completed, the ids of the row
\* elements in the body, in order, are the current display order:
\* getPaginatedOrder() with pagination, filteredOrder without.
C17_BodyShowsDisplayOrder ==
  (last.op \in {"setData", "filterTable", "resetFilter", "setPage", "nextPage",
                "prevPage", "removeRow", "updateRow"} /\ Completed) =>
    BodyIds(tbody) = DisplayOrder(filteredOrder, pagination)

\* C18: the body listeners are attached, and options.addEventListeners is
\* called, once per table: not before the first body render, at the first
\* render, and by no render after it.
C18_ListenersOnce ==
  /\ bodyListeners \in {0, 1}
  /\ Includes(last.effects, "render") => bodyListeners = 1
  /\ bodyListeners = 0 => tbody = <<>> /\ tfoot = <<>> /\ ~eventListenersAdded

\* a filterTable call on a paginated table, which alone renders twice, after
\* the renders that filled the body
C18_Witness ==
  /\ last.op = "filterTable"
  /\ pagination.on
  /\ Len(order) = MaxId
  /\ bodyListeners = 1

\* the page buttons of a footer, in order
PageButtons(foot) == SelectSeq(foot, LAMBDA c : c.kind = "page")

\* C19: a footer drawn for T pages with the current page p in 1..T starts with
\* the previous-page button and ends with the next-page button; its page
\* buttons are strictly increasing numbers in 1..T, among them 1, T, p and
\* every page of p-2..p+2 that is in range; the button of p, and only it, is
\* disabled; an ellipsis stands exactly between neighbouring page buttons
\* whose numbers are not consecutive; previous is disabled iff p = 1 and next
\* iff p = T.
C19_Footer ==
  (Includes(last.effects, "render") /\ pagination.on /\ pagination.page.k = "num") =>
    LET T == TotalPages(filteredOrder, pagination.perPage)
        p == pagination.page.v
        pages == PageButtons(tfoot)
        n == Len(tfoot)
    IN  p \in 1..T =>
          /\ tfoot[1].kind = "prev" /\ (tfoot[1].disabled <=> p = 1)
          /\ tfoot[n].kind = "next" /\ (tfoot[n].disabled <=> p = T)
          /\ \A k \in 2..(n - 1) : tfoot[k].kind \in {"page", "ellipsis"}
          /\ \A i, j \in DOMAIN pages : i < j => pages[i].page < pages[j].page
          /\ \A i \in DOMAIN pages : pages[i].page \in 1..T
          /\ ({1, T, p} \cup ((p - 2)..(p + 2) \cap 1..T))
               \subseteq {pages[i].page : i \in DOMAIN pages}
          /\ \A i \in DOMAIN pages : pages[i].disabled <=> pages[i].page = p
          /\ \A k \in 2..(n - 1) :
               tfoot[k].kind = "ellipsis" =>
                 /\ tfoot[k - 1].kind = "page" /\ tfoot[k + 1].kind = "page"
                 /\ tfoot[k + 1].page > tfoot[k - 1].page + 1
          /\ \A k \in 2..(n - 2) :
               (tfoot[k].kind = "page" /\ tfoot[k + 1].kind = "page") =>
                 tfoot[k + 1].page = tfoot[k].page + 1

\* page 5 of 9: 1, an ellipsis, 3 to 7, an ellipsis, 9
C19_Witness ==
  /\ last.op = "setPage"
  /\ TotalPages(filteredOrder, pagination.perPage) = 9
  /\ pagination.page = Num(5)
  /\ Len(SelectSeq(tfoot, LAMBDA c : c.kind = "ellipsis")) = 2

\* C20: while the filter typed into the header is in force, every id in
\* filteredOrder is a stored row that satisfies it, also after
\* setData(rows, keepFilters = true), updateRow and in-place edits.
C20_FilteredRowsPass ==
  \A i \in DOMAIN filteredOrder :
    /\ filteredOrder[i] \in DOMAIN rowMap
    /\ RowPasses(rowMap[filteredOrder[i]], FilterArray(headerInputs))

====
